---- MODULE Spec2Model ----
(***************************************************************************)
(* Script execution pipeline of tools-app:                                 *)
(*   src/src/app/api/scripts/execute/route.ts, POST (lines 6-200).         *)
(* One request is followed from the authorization gate through the         *)
(* creation of the ScriptExecution row, the spawn of the interpreter, the  *)
(* forwarding of its output as server-sent events, and the three paths     *)
(* that finalize it (natural completion, timeout, spawn failure).          *)
(*                                                                         *)
(* Text is modelled by TLA+ strings ("" is the empty JS string, \o is +).  *)
(* A nullable number is a sequence: << >> is null, <<n>> is the number n.  *)
(* The composed script is modelled character by character: a text is a     *)
(* sequence of characters, a parameter name being one token.               *)
(***************************************************************************)
EXTENDS Integers, Sequences, FiniteSets, TLC

\* ---------------------------------------------------------------- bounds
\* Largest number of data chunks the subprocess delivers on one stream.
MaxChunks == 2

\* Largest number of entries of the params map.
MaxParams == 2

\* Largest number of characters of a parameter value.
MaxValueLen == 2

\* ------------------------------------------------------------- constants
NULL == "<null>"
UNDEFINED == "<undefined>"

\* data.toString() of the n-th chunk of a stream: the chunks of one stream
\* are pairwise distinct, so that their order shows in the accumulated text.
ChunkText(stream, n) == (IF stream = "stdout" THEN "o" ELSE "e") \o ToString(n)

\* Exit codes of a subprocess that ends by itself.
ExitCodes == {0, 1}

\* Negative errno reported through 'close' after a failed spawn (ENOENT).
SpawnErrnos == {0 - 2}

\* err.message of the spawn 'error' event.
errMessage == "spawn pwsh ENOENT"

\* parseInt(process.env.SCRIPT_TIMEOUT_MS || "120000", 10)
timeoutMs == 120000

\* execution.id of the created row.
executionId == "exec-1"

Roles == {"VIEWER", "OPERATOR", "ADMIN"}

VARIABLES
    pc,          \* position of the POST handler
    req,         \* what the request resolved to (session, script, user row)
    response,    \* HTTP status returned (0: none yet)
    record,      \* the ScriptExecution row, NULL-status record before create
    events,      \* frames enqueued on the response stream, in order
    closed,      \* let closed
    fullOutput,  \* let fullOutput
    fullStderr,  \* let fullStderr
    stdoutDone,  \* let stdoutDone
    stderrDone,  \* let stderrDone
    exitCode,    \* let exitCode: number | null
    timer,       \* "unset" | "armed" | "fired" | "cleared"
    proc,        \* "none" | "starting" | "running" | "exited" | "failed"
    procCode,    \* code the child reports on 'close' (<< >>: ended by signal)
    sigterm,     \* ps.kill("SIGTERM") reached a live child
    closeEmitted,\* the child's 'close' event has been delivered
    written,     \* chunks the child delivered, per stream
    updates,     \* prisma.scriptExecution.update calls issued, in order
    params,      \* params of the request body: present?, entries in map order
    scriptContent, \* script.content
    psScript,    \* let psScript, as written to the child's stdin
    execs,       \* two requests in flight: the closure state of each
    rows,        \* two requests in flight: the ScriptExecution rows, by id
    clientPc,    \* position of handleExecute: "idle" | "reading" | "ended" | "rejected"
    frames,      \* the frames the server enqueued on the response the client reads
    body,        \* the part of the response body the reader has not returned yet
    buffer,      \* let buffer
    output,      \* the output state of the component
    uiStatus,    \* the status state of the component
    handled,     \* the (kind, payload) pairs that reached the switch, in order
    lineCuts     \* every chunk read so far ended at a line break

\* the state of the one request followed in detail
serverVars == <<pc, req, response, record, events, closed, fullOutput, fullStderr,
                stdoutDone, stderrDone, exitCode, timer, proc, procCode, sigterm,
                closeEmitted, written, updates, params, scriptContent, psScript>>

\* the state of the two requests in flight together
concVars == <<execs, rows>>

\* the state of the browser component that reads one response
clientVars == <<clientPc, frames, body, buffer, output, uiStatus, handled,
                lineCuts>>

vars == <<serverVars, concVars, clientVars>>

bindVars == <<params, scriptContent, psScript>>

\* ------------------------------------------------------ pure helpers
\* code ?? 1
Coalesce(code, dflt) == IF code = << >> THEN dflt ELSE code[1]

\* a || b on strings
OrElse(a, b) == IF a = "" THEN b ELSE a

\* an accumulator that puts the new chunk in front
AccumulatePrepend(acc, text) == text \o acc

\* fullOutput += text, fullStderr += text
Accumulate(acc, text) == acc \o text

Frame(event, data) == [event |-> event, data |-> data]

\* send without the closed check
SendUnguarded(ev, cl, event, data) == Append(ev, [event |-> event, data |-> data])

\* function send(event, data): no-op once closed
Send(ev, cl, event, data) == IF cl THEN ev ELSE Append(ev, Frame(event, data))

\* closeController that forgets to set the flag
CloseControllerNoFlag(cl) == cl

\* function closeController(): closed = true
CloseController(cl) == TRUE

\* a handler that forgets clearTimeout(timer)
ClearTimeoutForgotten(t) == t

\* clearTimeout(timer): disarms a timer that has not fired
ClearTimeout(t) == IF t = "armed" THEN "cleared" ELSE t

\* `Script execution timed out after ${timeoutMs / 1000}s`
TimeoutMessage == ("Script execution timed out after " \o ToString(timeoutMs \div 1000)) \o "s"

\* `Failed to start PowerShell: ${err.message}`
SpawnMessage == "Failed to start PowerShell: " \o errMessage

\* `PowerShell exited with code ${exitCode}`
ExitMessage(ec) == "PowerShell exited with code " \o ToString(ec)

\* new Date()
Now == "<date>"

\* tryFinalize that does not wait for stderr to drain
FinalizeGuardNoStderr(sd, se, ec) == sd /\ ec # << >>

\* tryFinalize that waits for the exit code only
FinalizeGuardExitOnly(sd, se, ec) == ec # << >>

\* tryFinalize guard: all streams drained AND the process has exited
FinalizeGuard(sd, se, ec) == sd /\ se /\ ec # << >>

\* natural update that stores the empty string instead of the sentinel
NaturalDataNoSentinel(ec, out, err) ==
    LET succeeded == (ec = 0)
    IN  [status  |-> IF succeeded THEN "SUCCESS" ELSE "FAILED",
         output  |-> IF out = "" /\ ~succeeded THEN UNDEFINED ELSE out,
         error   |-> IF succeeded THEN UNDEFINED ELSE OrElse(err, ExitMessage(ec)),
         endedAt |-> Now]

\* natural update that always stores the exit-code message as the error
NaturalDataExitMessageOnly(ec, out, err) ==
    LET succeeded == (ec = 0)
    IN  [status  |-> IF succeeded THEN "SUCCESS" ELSE "FAILED",
         output  |-> OrElse(out, IF succeeded THEN "(no output)" ELSE UNDEFINED),
         error   |-> IF succeeded THEN UNDEFINED ELSE ExitMessage(ec),
         endedAt |-> Now]

\* data of the update issued by tryFinalize
NaturalData(ec, out, err) ==
    LET succeeded == (ec = 0)
    IN  [status  |-> IF succeeded THEN "SUCCESS" ELSE "FAILED",
         output  |-> OrElse(out, IF succeeded THEN "(no output)" ELSE UNDEFINED),
         error   |-> IF succeeded THEN UNDEFINED ELSE OrElse(err, ExitMessage(ec)),
         endedAt |-> Now]

\* timeout update that leaves endedAt out
TimeoutDataNoEndedAt ==
    [status |-> "FAILED", output |-> UNDEFINED, error |-> TimeoutMessage,
     endedAt |-> UNDEFINED]

\* data of the update issued by the timeout callback
TimeoutData ==
    [status |-> "FAILED", output |-> UNDEFINED, error |-> TimeoutMessage, endedAt |-> Now]

\* data of the update issued by ps.on("error")
SpawnErrorData ==
    [status |-> "FAILED", output |-> UNDEFINED, error |-> SpawnMessage, endedAt |-> Now]

\* prisma update semantics: an undefined field is left untouched
ApplyUpdate(rec, data) ==
    [f \in DOMAIN rec |-> IF data[f] = UNDEFINED THEN rec[f] ELSE data[f]]

\* an issued update: which path issued it, its data, and its promise state
Issue(path, data) == [path |-> path, data |-> data, state |-> "pending"]

\* ------------------------------------------------- parameter binding
QUOTE == "\""
\* the grave accent, U+0060 (the character cannot be written in a string here)
BACKTICK == "<backtick>"
NEWLINE == "\n"

\* the name of the i-th entry of the map: pairwise distinct names
KeyAt(i) == "Param" \o ToString(i)

\* the characters a value can carry
ValueChars == {"a", QUOTE, BACKTICK}

\* script bodies; the second has a line break and a quote of its own
SimpleBody == <<"G", "e", "t">>
Bodies == { SimpleBody, <<"G", NEWLINE, QUOTE, "x", QUOTE>> }

\* a binder that copies the value unescaped
EscapeNothing(value) == value

\* String(value).replace: every double quote becomes backtick, double quote
RECURSIVE EscapeQuotes(_)
EscapeQuotes(value) ==
    IF value = << >> THEN << >>
    ELSE (IF Head(value) = QUOTE THEN <<BACKTICK, QUOTE>> ELSE <<Head(value)>>)
         \o EscapeQuotes(Tail(value))

\* the template literal of line 67: dollar, key, space, equals, space, and
\* the escaped value between double quotes
AssignLine(entry) ==
    <<"$", entry.key, " ", "=", " ", QUOTE>> \o EscapeQuotes(entry.value) \o <<QUOTE>>

\* lines.join("\n")
RECURSIVE JoinLines(_)
JoinLines(lines) ==
    IF lines = << >> THEN << >>
    ELSE IF Len(lines) = 1 THEN lines[1]
    ELSE lines[1] \o <<NEWLINE>> \o JoinLines(Tail(lines))

\* a binder that puts a single line break before the body
ComposeNoBlankLine(p, content) ==
    IF p.present /\ Len(p.entries) > 0
    THEN JoinLines([i \in DOMAIN p.entries |-> AssignLine(p.entries[i])])
         \o <<NEWLINE>> \o content
    ELSE content

\* lines 63-70: psScript = paramBlock + "\n\n" + script.content
Compose(p, content) ==
    IF p.present /\ Len(p.entries) > 0
    THEN JoinLines([i \in DOMAIN p.entries |-> AssignLine(p.entries[i])])
         \o <<NEWLINE, NEWLINE>> \o content
    ELSE content

NoParams == [present |-> FALSE, entries |-> << >>]

\* the gate without the VIEWER check
GateResponseNoViewerCheck(authed, hasId, found, active, reqAdmin, role) ==
    IF ~authed THEN 401
    ELSE IF ~hasId THEN 400
    ELSE IF ~found \/ ~active THEN 404
    ELSE IF reqAdmin /\ role # "ADMIN" THEN 403
    ELSE 0

\* the early returns of POST before the row is created; 0 means "passes"
GateResponse(authed, hasId, found, active, reqAdmin, role) ==
    IF ~authed THEN 401
    ELSE IF ~hasId THEN 400
    ELSE IF ~found \/ ~active THEN 404
    ELSE IF reqAdmin /\ role # "ADMIN" THEN 403
    ELSE IF role = "VIEWER" THEN 403
    ELSE 0

\* a create that relies on the column default of status
NewExecutionPending ==
    [status |-> "PENDING", output |-> NULL, error |-> NULL, endedAt |-> NULL]

\* the row prisma.scriptExecution.create returns: status RUNNING, the
\* nullable columns null
NewExecution ==
    [status |-> "RUNNING", output |-> NULL, error |-> NULL, endedAt |-> NULL]

NoRecord == [status |-> NULL, output |-> NULL, error |-> NULL, endedAt |-> NULL]

NoReq == [authed |-> FALSE, hasId |-> FALSE, found |-> FALSE, active |-> FALSE,
          reqAdmin |-> FALSE, role |-> NULL]

\* ------------------------------------------- two requests in flight
\* the two POST requests served at the same time
Execs == {1, 2}

\* execution.id of the row created for request e: the store gives every row
\* its own id
IdOf(e) == "exec-" \o ToString(e)

ExecutionIds == {IdOf(e) : e \in Execs}

\* the closure of start(controller) before the handler has run: lines 79-81
\* and 101-103, and the child and timer not yet created
IdleExec ==
    [pc |-> "idle", events |-> << >>, closed |-> FALSE,
     stdoutDone |-> FALSE, stderrDone |-> FALSE, exitCode |-> << >>,
     timer |-> "unset", proc |-> "none", procCode |-> << >>,
     sigterm |-> FALSE, closeEmitted |-> FALSE, updates |-> << >>]

\* ------------------------------------------------------------------ Init
Init ==
    /\ pc = "idle"
    /\ req = NoReq
    /\ response = 0
    /\ record = NoRecord
    /\ events = << >>
    /\ closed = FALSE
    /\ fullOutput = ""
    /\ fullStderr = ""
    /\ stdoutDone = FALSE
    /\ stderrDone = FALSE
    /\ exitCode = << >>
    /\ timer = "unset"
    /\ proc = "none"
    /\ procCode = << >>
    /\ sigterm = FALSE
    /\ closeEmitted = FALSE
    /\ written = [stdout |-> << >>, stderr |-> << >>]
    /\ updates = << >>
    /\ params = NoParams
    /\ scriptContent = SimpleBody
    /\ psScript = << >>
    /\ execs = [e \in Execs |-> IdleExec]
    /\ rows = [id \in ExecutionIds |-> NoRecord]
    /\ clientPc = "idle"
    /\ frames = << >>
    /\ body = << >>
    /\ buffer = << >>
    /\ output = << >>
    /\ uiStatus = "idle"
    /\ handled = << >>
    /\ lineCuts = TRUE

streamVars == <<events, closed, fullOutput, fullStderr, stdoutDone, stderrDone,
                exitCode, timer, updates>>
procVars == <<proc, procCode, sigterm, closeEmitted, written>>

\* --------------------------------------------------------------- actions
\* POST, lines 7-50: session, body, script lookup, role checks.
\* The inputs say what the lookups would return: authed is session?.user?.id,
\* hasId is scriptId, found/active/reqAdmin describe the script row, role is
\* dbUser?.role (NULL when the user row is missing).
Gate(authed, hasId, found, active, reqAdmin, role) ==
    /\ pc = "idle"
    /\ req' = [authed |-> authed, hasId |-> hasId, found |-> found,
               active |-> active, reqAdmin |-> reqAdmin, role |-> role]
    /\ LET r == GateResponse(authed, hasId, found, active, reqAdmin, role)
       IN  IF r = 0
           THEN pc' = "authorized" /\ response' = response
           ELSE pc' = "rejected" /\ response' = r
    /\ UNCHANGED <<record, streamVars, procVars>>
    /\ UNCHANGED bindVars
    /\ UNCHANGED concVars
    /\ UNCHANGED clientVars

\* POST, lines 53-60: prisma.scriptExecution.create({status: "RUNNING"})
CreateRecord ==
    /\ pc = "authorized"
    /\ record' = NewExecution
    /\ pc' = "created"
    /\ UNCHANGED <<req, response, streamVars, procVars>>
    /\ UNCHANGED bindVars
    /\ UNCHANGED concVars
    /\ UNCHANGED clientVars

\* lines 62-70 and start(controller), lines 77-190, up to the registration of
\* the handlers: the script is composed, send("execution_id"), spawn,
\* setTimeout, the script is written to stdin; then the Response is returned.
Start ==
    /\ pc = "created"
    /\ events' = Send(events, closed, "execution_id", executionId)
    /\ proc' = "starting"
    /\ timer' = "armed"
    /\ response' = 200
    /\ pc' = "streaming"
    /\ psScript' = Compose(params, scriptContent)
    /\ UNCHANGED <<req, record, closed, fullOutput, fullStderr, stdoutDone,
                   stderrDone, exitCode, updates, procCode, sigterm,
                   closeEmitted, written, params, scriptContent>>
    /\ UNCHANGED concVars
    /\ UNCHANGED clientVars

\* function tryFinalize(), lines 105-125, run with the flags as just set
TryFinalize(sd, se, ec) ==
    IF FinalizeGuard(sd, se, ec)
    THEN /\ timer' = ClearTimeout(timer)
         /\ updates' = Append(updates,
                Issue("natural", NaturalData(ec[1], fullOutput, fullStderr)))
    ELSE UNCHANGED <<timer, updates>>

\* the child was spawned (no handler is registered for 'spawn')
SpawnOk ==
    /\ proc = "starting"
    /\ proc' = "running"
    /\ UNCHANGED <<pc, req, response, record, streamVars, procCode, sigterm,
                   closeEmitted, written>>
    /\ UNCHANGED bindVars
    /\ UNCHANGED concVars
    /\ UNCHANGED clientVars

\* ps.on("error"), lines 170-185: the spawn failed
OnError ==
    /\ proc = "starting"
    /\ proc' = "failed"
    /\ \E e \in SpawnErrnos : procCode' = <<e>>
    /\ timer' = ClearTimeout(timer)
    /\ events' = Send(events, closed, "error", SpawnMessage)
    /\ updates' = Append(updates, Issue("spawn", SpawnErrorData))
    /\ UNCHANGED <<pc, req, response, record, closed, fullOutput, fullStderr,
                   stdoutDone, stderrDone, exitCode, sigterm, closeEmitted, written>>
    /\ UNCHANGED bindVars
    /\ UNCHANGED concVars
    /\ UNCHANGED clientVars

\* ps.stdout.on("data"), lines 127-131
OnStdoutData ==
    /\ proc \in {"running", "exited"}
    /\ ~stdoutDone
    /\ Len(written.stdout) < MaxChunks
    /\ LET text == ChunkText("stdout", Len(written.stdout) + 1)
       IN  /\ written' = [written EXCEPT !.stdout = Append(@, text)]
           /\ fullOutput' = Accumulate(fullOutput, text)
           /\ events' = Send(events, closed, "stdout", text)
    /\ UNCHANGED <<pc, req, response, record, closed, fullStderr, stdoutDone,
                   stderrDone, exitCode, timer, updates, proc, procCode,
                   sigterm, closeEmitted>>
    /\ UNCHANGED bindVars
    /\ UNCHANGED concVars
    /\ UNCHANGED clientVars

\* ps.stderr.on("data"), lines 138-142
OnStderrData ==
    /\ proc \in {"running", "exited"}
    /\ ~stderrDone
    /\ Len(written.stderr) < MaxChunks
    /\ LET text == ChunkText("stderr", Len(written.stderr) + 1)
       IN  /\ written' = [written EXCEPT !.stderr = Append(@, text)]
           /\ fullStderr' = Accumulate(fullStderr, text)
           /\ events' = Send(events, closed, "stderr", text)
    /\ UNCHANGED <<pc, req, response, record, closed, fullOutput, stdoutDone,
                   stderrDone, exitCode, timer, updates, proc, procCode,
                   sigterm, closeEmitted>>
    /\ UNCHANGED bindVars
    /\ UNCHANGED concVars
    /\ UNCHANGED clientVars

\* ps.stdout.on("end"), lines 133-136.  The child may close a stream before it
\* exits.  After a failed spawn the stdio sockets have no handle and never
\* report end-of-stream; only 'error' and 'close' are delivered.
OnStdoutEnd ==
    /\ proc \in {"running", "exited"}
    /\ ~stdoutDone
    /\ stdoutDone' = TRUE
    /\ TryFinalize(TRUE, stderrDone, exitCode)
    /\ UNCHANGED <<pc, req, response, record, events, closed, fullOutput,
                   fullStderr, stderrDone, exitCode, procVars>>
    /\ UNCHANGED bindVars
    /\ UNCHANGED concVars
    /\ UNCHANGED clientVars

\* ps.stderr.on("end"), lines 144-147
OnStderrEnd ==
    /\ proc \in {"running", "exited"}
    /\ ~stderrDone
    /\ stderrDone' = TRUE
    /\ TryFinalize(stdoutDone, TRUE, exitCode)
    /\ UNCHANGED <<pc, req, response, record, events, closed, fullOutput,
                   fullStderr, stdoutDone, exitCode, procVars>>
    /\ UNCHANGED bindVars
    /\ UNCHANGED concVars
    /\ UNCHANGED clientVars

\* the child ends: by itself with a code, or by the signal (code null)
ProcExit(code) ==
    /\ proc = "running"
    /\ proc' = "exited"
    /\ procCode' = code
    /\ UNCHANGED <<pc, req, response, record, streamVars, sigterm,
                   closeEmitted, written>>
    /\ UNCHANGED bindVars
    /\ UNCHANGED concVars
    /\ UNCHANGED clientVars

\* ps.on("close"), lines 165-168
OnClose ==
    /\ proc \in {"exited", "failed"}
    /\ ~closeEmitted
    /\ closeEmitted' = TRUE
    /\ exitCode' = <<Coalesce(procCode, 1)>>
    /\ TryFinalize(stdoutDone, stderrDone, <<Coalesce(procCode, 1)>>)
    /\ UNCHANGED <<pc, req, response, record, events, closed, fullOutput,
                   fullStderr, stdoutDone, stderrDone, proc, procCode,
                   sigterm, written>>
    /\ UNCHANGED bindVars
    /\ UNCHANGED concVars
    /\ UNCHANGED clientVars

\* the setTimeout callback, lines 149-163; a timer runs after the spawn
\* result, which is reported on the next tick
TimerFire ==
    /\ timer = "armed"
    /\ proc # "starting"
    /\ timer' = "fired"
    /\ sigterm' = (sigterm \/ proc = "running")
    /\ events' = Send(events, closed, "error", TimeoutMessage)
    /\ updates' = Append(updates, Issue("timeout", TimeoutData))
    /\ UNCHANGED <<pc, req, response, record, closed, fullOutput, fullStderr,
                   stdoutDone, stderrDone, exitCode, proc, procCode,
                   closeEmitted, written>>
    /\ UNCHANGED bindVars
    /\ UNCHANGED concVars
    /\ UNCHANGED clientVars

\* .then(callback): the callback runs only when the promise resolves
RunsOnResolveOnly(outcome) == outcome = "resolved"

\* .finally(callback): the callback runs however the promise settles
FinallyRuns(outcome) == outcome \in {"resolved", "rejected"}

\* .finally(() => { send("done", status); closeController(); })
Finally(outcome, status) ==
    IF FinallyRuns(outcome)
    THEN /\ events' = Send(events, closed, "done", status)
         /\ closed' = CloseController(closed)
    ELSE UNCHANGED <<events, closed>>

\* an update promise resolves: the store has applied the data
UpdateResolve(i) ==
    /\ updates[i].state = "pending"
    /\ record' = ApplyUpdate(record, updates[i].data)
    /\ updates' = [updates EXCEPT ![i].state = "resolved"]
    /\ Finally("resolved", updates[i].data.status)
    /\ UNCHANGED <<pc, req, response, fullOutput, fullStderr, stdoutDone,
                   stderrDone, exitCode, timer, procVars>>
    /\ UNCHANGED bindVars
    /\ UNCHANGED concVars
    /\ UNCHANGED clientVars

\* an update promise rejects: the store is left as it was
UpdateReject(i) ==
    /\ updates[i].state = "pending"
    /\ updates' = [updates EXCEPT ![i].state = "rejected"]
    /\ Finally("rejected", updates[i].data.status)
    /\ UNCHANGED <<pc, req, response, record, fullOutput, fullStderr,
                   stdoutDone, stderrDone, exitCode, timer, procVars>>
    /\ UNCHANGED bindVars
    /\ UNCHANGED concVars
    /\ UNCHANGED clientVars

Next ==
    \/ \E authed \in BOOLEAN, hasId \in BOOLEAN, found \in BOOLEAN,
          active \in BOOLEAN, reqAdmin \in BOOLEAN, role \in Roles \cup {NULL} :
          Gate(authed, hasId, found, active, reqAdmin, role)
    \/ CreateRecord
    \/ Start
    \/ SpawnOk
    \/ OnError
    \/ OnStdoutData
    \/ OnStderrData
    \/ OnStdoutEnd
    \/ OnStderrEnd
    \/ \E code \in {<<c>> : c \in ExitCodes} \cup {<< >>} :
          /\ (code = << >>) => sigterm
          /\ ProcExit(code)
    \/ OnClose
    \/ TimerFire
    \/ \E i \in DOMAIN updates : UpdateResolve(i)
    \/ \E i \in DOMAIN updates : UpdateReject(i)

Spec == Init /\ [][Next]_vars

\* ------------------------------------------------------------ properties
Terminal == {"SUCCESS", "FAILED"}

\* number of frames of one kind on the response stream
Count(kind) == Cardinality({i \in DOMAIN events : events[i].event = kind})

DoneSent == Count("done") > 0

\* payloads of the frames of one kind, in stream order
PayloadsOf(kind) ==
    LET sel == SelectSeq(events, LAMBDA f : f.event = kind)
    IN  [i \in DOMAIN sel |-> sel[i].data]

\* the updates whose promise has settled / resolved
Settled == {i \in DOMAIN updates : updates[i].state # "pending"}
Resolved == {i \in DOMAIN updates : updates[i].state = "resolved"}

IssuedBy(path) == {i \in DOMAIN updates : updates[i].path = path}

\* C1: whatever the order of the completion signals, at most one
\* prisma.scriptExecution.update is ever issued for the execution (and exactly
\* one once a finalize path ran); signals after the first finalize do not
\* re-persist.
C1_UpdateIssuedOnce == Len(updates) <= 1

\* C2: the stream carries at most one `done` frame, and exactly one as soon as
\* the update of some finalize path has settled.
C2_ExactlyOneDone ==
    /\ Count("done") <= 1
    /\ (Settled # {} => Count("done") = 1)

C2_Witness ==
    /\ Cardinality(Settled) = 2
    /\ Count("done") = 1

\* C3: once the timeout fired, no natural-completion update is issued, and
\* after the timeout update is stored the row stays FAILED with the timeout
\* message.
C3_TimeoutIsFinal ==
    timer = "fired" =>
        /\ IssuedBy("natural") = {}
        /\ (IssuedBy("timeout") \cap Resolved # {} =>
                record.status = "FAILED" /\ record.error = TimeoutMessage)

\* C4: once the row's status is SUCCESS or FAILED, no step changes it.
C4_TerminalStatusIsStable ==
    [][record.status \in Terminal => record'.status = record.status]_vars

\* C5: after `done` was sent, no update is issued and none is applied.
C5_NoUpdateAfterDone ==
    [][DoneSent =>
        /\ Len(updates') = Len(updates)
        /\ \A i \in DOMAIN updates :
              updates'[i].state = "resolved" => updates[i].state = "resolved"]_vars

\* C6: `execution_id` is the first frame and occurs once, `done` is the last
\* frame, nothing is enqueued after it, and its payload is SUCCESS or FAILED.
C6_FrameOrder ==
    /\ (pc = "streaming" => events # << >>)
    /\ \A i \in DOMAIN events :
          /\ (events[i].event = "execution_id" <=> i = 1)
          /\ (events[i].event = "done" =>
                i = Len(events) /\ events[i].data \in Terminal)

\* a chunk arrived after `done` and was not enqueued
C6_Witness ==
    /\ DoneSent
    /\ closed
    /\ Len(written.stdout) > Count("stdout")
    /\ events[Len(events)].event = "done"

\* C7: in a run that completes naturally, when `done` is on the stream every
\* chunk the child delivered on stdout and on stderr is a frame before it,
\* tagged with its stream.
C7_AllDataBeforeDone ==
    (DoneSent /\ timer # "fired" /\ proc # "failed") =>
        /\ PayloadsOf("stdout") = written.stdout
        /\ PayloadsOf("stderr") = written.stderr
        /\ events[Len(events)].event = "done"

C7_Witness ==
    /\ DoneSent
    /\ timer = "cleared"
    /\ proc = "exited"
    /\ Len(written.stdout) = 2
    /\ Len(written.stderr) = 1
    /\ events[2].event = "stderr"

\* C8: endedAt is set exactly when the status is SUCCESS or FAILED.
C8_EndedAtIffTerminal ==
    (record.endedAt # NULL) <=> (record.status \in Terminal)

C8_Witness ==
    /\ record.status = "FAILED"
    /\ record.endedAt = Now
    /\ IssuedBy("timeout") \cap Resolved # {}

\* C9: a row whose status is SUCCESS has a null error.
C9_SuccessHasNoError == record.status = "SUCCESS" => record.error = NULL

\* C10: an unauthenticated caller, a missing or inactive script, an admin-only
\* script requested without the ADMIN role, or a VIEWER caller gets an error
\* response, and no row is created and no child is spawned.
C10_GateRejects ==
    (/\ pc # "idle"
     /\ \/ ~req.authed
        \/ ~req.found
        \/ ~req.active
        \/ (req.reqAdmin /\ req.role # "ADMIN")
        \/ req.role = "VIEWER") =>
        /\ pc = "rejected"
        /\ response \in {400, 401, 403, 404}
        /\ record = NoRecord
        /\ proc = "none"
        /\ events = << >>

C10_Witness ==
    /\ pc = "rejected"
    /\ req.authed /\ req.hasId /\ req.found /\ req.active /\ ~req.reqAdmin
    /\ req.role = "VIEWER"
    /\ response = 403

\* position of the first frame of one kind (0: none)
FirstIndex(kind) ==
    IF Count(kind) = 0 THEN 0
    ELSE CHOOSE i \in DOMAIN events :
            /\ events[i].event = kind
            /\ \A j \in 1..(i - 1) : events[j].event # kind

\* the chunks of one stream joined, as the accumulators are meant to hold them
RECURSIVE Concat(_)
Concat(chunks) ==
    IF chunks = << >> THEN "" ELSE chunks[1] \o Concat(Tail(chunks))

C12_TimeoutDoneIsFailed ==
    timer = "fired" =>
        /\ Count("error") = 1
        /\ events[FirstIndex("error")].data = TimeoutMessage
        /\ (DoneSent =>
              /\ FirstIndex("done") > FirstIndex("error")
              /\ events[FirstIndex("done")].data = "FAILED")

\* C13: an execution whose stream was opened eventually has `done` on the
\* stream and the stream closed.
C13_EventuallyDone == (pc = "streaming") ~> (DoneSent /\ closed)

C13_Witness ==
    /\ pc = "streaming"
    /\ DoneSent
    /\ closed
    /\ timer = "cleared"
    /\ Settled = Resolved
    /\ Resolved # {}

C15_OutputSentinel ==
    \A i \in IssuedBy("natural") \cap Resolved :
        updates[i].data.status = "SUCCESS" =>
            record.output = IF written.stdout = << >> THEN "(no output)"
                            ELSE Concat(written.stdout)

C15_Witness ==
    /\ IssuedBy("natural") \cap Resolved # {}
    /\ record.status = "SUCCESS"
    /\ written.stdout = << >>
    /\ record.output = "(no output)"

\* C16: once the natural-completion update of a run that ended with a nonzero
\* code (no timeout, no spawn failure) is stored, the row is FAILED and its
\* error is the text the child wrote on stderr, or, when it wrote none, the
\* message that names the exit code.
C16_ErrorFromStderr ==
    (timer # "fired" /\ proc # "failed") =>
        \A i \in IssuedBy("natural") \cap Resolved :
            exitCode # <<0>> =>
                /\ record.status = "FAILED"
                /\ record.error =
                      IF written.stderr = << >>
                      THEN "PowerShell exited with code " \o ToString(exitCode[1])
                      ELSE Concat(written.stderr)

C16_Witness ==
    /\ timer = "cleared"
    /\ IssuedBy("natural") \cap Resolved # {}
    /\ exitCode = <<1>>
    /\ Len(written.stderr) = 2
    /\ record.error = Concat(written.stderr)

\* the spawn result is reported on the next tick, an armed timer fires, and
\* every store update settles
FairSpec ==
    /\ Spec
    /\ WF_vars(SpawnOk \/ OnError)
    /\ WF_vars(TimerFire)
    /\ WF_vars(\E i \in DOMAIN updates : UpdateResolve(i) \/ UpdateReject(i))

\* C19: when `done` is on the stream the subprocess is no longer running.
C19_NoDoneWhileAlive == DoneSent => proc \notin {"starting", "running"}

\* C20: a natural-completion update is issued only when stdout end-of-stream,
\* stderr end-of-stream and the exit code have all three been observed.
C20_NaturalNeedsAllThree ==
    IssuedBy("natural") # {} =>
        /\ stdoutDone
        /\ stderrDone
        /\ closeEmitted
        /\ exitCode # << >>

\* two of the three signals observed, nothing issued; and the third observed
C20_Witness ==
    /\ IssuedBy("natural") # {}
    /\ timer = "cleared"
    /\ Len(updates) = 1
    /\ stdoutDone /\ stderrDone /\ closeEmitted

\* ------------------------------------------- parameter binding, checked
\* values of at most MaxValueLen characters
Values == UNION {[1..n -> ValueChars] : n \in 0..MaxValueLen}

\* the entries of a map with the given values, in the order Object.entries
\* lists them
ParamEntries(vs) == [i \in DOMAIN vs |-> [key |-> KeyAt(i), value |-> vs[i]]]

\* an authorized request whose row has just been created, for every params
\* map (absent, empty, or with at most MaxParams entries) and script body
BindInit ==
    /\ pc = "created"
    /\ req = [authed |-> TRUE, hasId |-> TRUE, found |-> TRUE, active |-> TRUE,
              reqAdmin |-> FALSE, role |-> "OPERATOR"]
    /\ response = 0
    /\ record = NewExecution
    /\ events = << >>
    /\ closed = FALSE
    /\ fullOutput = ""
    /\ fullStderr = ""
    /\ stdoutDone = FALSE
    /\ stderrDone = FALSE
    /\ exitCode = << >>
    /\ timer = "unset"
    /\ proc = "none"
    /\ procCode = << >>
    /\ sigterm = FALSE
    /\ closeEmitted = FALSE
    /\ written = [stdout |-> << >>, stderr |-> << >>]
    /\ updates = << >>
    /\ \/ params = NoParams
       \/ \E n \in 0..MaxParams : \E vs \in [1..n -> Values] :
             params = [present |-> TRUE, entries |-> ParamEntries(vs)]
    /\ scriptContent \in Bodies
    /\ psScript = << >>
    /\ execs = [e \in Execs |-> IdleExec]
    /\ rows = [id \in ExecutionIds |-> NoRecord]
    /\ clientPc = "idle"
    /\ frames = << >>
    /\ body = << >>
    /\ buffer = << >>
    /\ output = << >>
    /\ uiStatus = "idle"
    /\ handled = << >>
    /\ lineCuts = TRUE

BindSpec == BindInit /\ [][Start]_vars

\* positions of the line breaks of a text, in order
NewlinePositions(t) ==
    LET idx == [i \in 1..Len(t) |-> i]
    IN  SelectSeq(idx, LAMBDA i : t[i] = NEWLINE)

\* every double quote of e is preceded by a backtick
QuotesEscaped(e) ==
    \A j \in DOMAIN e : e[j] = QUOTE => (j > 1 /\ e[j - 1] = BACKTICK)

\* e without the backtick in front of each double quote
StripInserted(e) ==
    LET idx == [i \in 1..Len(e) |-> i]
        kept == SelectSeq(idx, LAMBDA i :
                    ~(e[i] = BACKTICK /\ i < Len(e) /\ e[i + 1] = QUOTE))
    IN  [i \in DOMAIN kept |-> e[kept[i]]]

\* the i-th line of the composed script
ScriptLine(i) ==
    LET nl == NewlinePositions(psScript)
    IN  SubSeq(psScript, IF i = 1 THEN 1 ELSE nl[i - 1] + 1, nl[i] - 1)

PSEscaped(c) == IF c = "a" THEN "<alert>" ELSE c

\* the interpreter reading a double-quoted string from position i of line t
\* (just after the opening quote): close is the position of the closing
\* quote (0: the line ends inside the string), value is what it denotes.
\* A backtick escapes the next character; a doubled quote is a literal quote.
RECURSIVE PSReadString(_, _, _)
PSReadString(t, i, acc) ==
    IF i > Len(t) THEN [close |-> 0, value |-> acc]
    ELSE IF t[i] = BACKTICK
         THEN IF i + 1 > Len(t) THEN [close |-> 0, value |-> acc]
              ELSE PSReadString(t, i + 2, Append(acc, PSEscaped(t[i + 1])))
    ELSE IF t[i] = QUOTE
         THEN IF i + 1 <= Len(t) /\ t[i + 1] = QUOTE
              THEN PSReadString(t, i + 2, Append(acc, QUOTE))
              ELSE [close |-> i, value |-> acc]
    ELSE PSReadString(t, i + 1, Append(acc, t[i]))

\* C18: for every value that contains a double quote, the quoted literal of
\* its assignment line, read with the interpreter's quoting rules, is closed
\* by the last quote of the line and denotes the value.
C18_LiteralStaysValid ==
    (pc = "streaming" /\ params.present) =>
        \A i \in DOMAIN params.entries :
            (\E j \in DOMAIN params.entries[i].value :
                    params.entries[i].value[j] = QUOTE) =>
                PSReadString(ScriptLine(i), 7, << >>) =
                    [close |-> Len(ScriptLine(i)), value |-> params.entries[i].value]

\* ------------------------------------------- creation, order, arbitration
\* C21: the row is created with status RUNNING and endedAt null only after
\* every authorization check passed and before the child is spawned, and the
\* `execution_id` frame with the row's id is the first frame, enqueued before
\* the spawn and before any stdout, stderr, error or done frame.
C21_CreatedBeforeSpawn ==
    /\ (record # NoRecord =>
          /\ pc \in {"created", "streaming"}
          /\ req.authed /\ req.hasId /\ req.found /\ req.active
          /\ (req.reqAdmin => req.role = "ADMIN")
          /\ req.role # "VIEWER")
    /\ (pc = "created" =>
          /\ record.status = "RUNNING"
          /\ record.endedAt = NULL
          /\ proc = "none"
          /\ events = << >>)
    /\ (proc # "none" => record # NoRecord /\ events # << >>)
    /\ (events # << >> =>
          /\ record # NoRecord
          /\ events[1] = Frame("execution_id", executionId)
          /\ \A i \in 2..Len(events) : events[i].event # "execution_id")

C21_Witness ==
    /\ pc = "streaming"
    /\ proc = "starting"
    /\ record.status = "RUNNING"
    /\ record.endedAt = NULL
    /\ events = <<Frame("execution_id", executionId)>>
    /\ req.role = "ADMIN"
    /\ req.reqAdmin

\* a is an initial part of b
IsPrefix(a, b) == Len(a) <= Len(b) /\ SubSeq(b, 1, Len(a)) = a

\* C22: the frames of each stream carry its chunks in arrival order, and
\* while the response stream is open every chunk delivered is a frame and each
\* accumulator equals the payloads of its stream's frames joined in order.
C22_PerStreamOrder ==
    /\ IsPrefix(PayloadsOf("stdout"), written.stdout)
    /\ IsPrefix(PayloadsOf("stderr"), written.stderr)
    /\ (~closed =>
          /\ PayloadsOf("stdout") = written.stdout
          /\ PayloadsOf("stderr") = written.stderr
          /\ fullOutput = Concat(PayloadsOf("stdout"))
          /\ fullStderr = Concat(PayloadsOf("stderr")))

\* the two streams interleaved: stderr, stdout, stdout, stderr
C22_Witness ==
    /\ ~closed
    /\ Len(events) = 5
    /\ events[2].event = "stderr"
    /\ events[3].event = "stdout"
    /\ events[4].event = "stdout"
    /\ events[5].event = "stderr"
    /\ fullOutput = ChunkText("stdout", 1) \o ChunkText("stdout", 2)
    /\ fullStderr = ChunkText("stderr", 1) \o ChunkText("stderr", 2)

\* C26: in a run in which the timer does not fire and the spawn does not
\* fail, at most one update is issued and at most one `done` sent; the update
\* is the natural one, it is issued exactly when the last of stdout end,
\* stderr end and close has been observed, and `done` follows its settlement.
C26_NaturalPathOnce ==
    (timer # "fired" /\ proc # "failed") =>
        /\ Len(updates) <= 1
        /\ Count("done") <= 1
        /\ (Len(updates) = 1 <=> (stdoutDone /\ stderrDone /\ exitCode # << >>))
        /\ (Len(updates) = 1 =>
              /\ updates[1].path = "natural"
              /\ (Count("done") = 1 <=> updates[1].state # "pending"))
        /\ (Len(updates) = 0 => Count("done") = 0)

\* a natural completion with output on both streams, stored and announced
C26_Witness ==
    /\ timer = "cleared"
    /\ proc = "exited"
    /\ Len(updates) = 1
    /\ updates[1].state = "resolved"
    /\ Count("done") = 1
    /\ Len(written.stdout) = 1
    /\ Len(written.stderr) = 1
    /\ record.status = "SUCCESS"

\* C27: when the first finalize was the natural one or the spawn-error one,
\* the timer is disarmed and the timeout handler has not run and cannot run:
\* no signal was sent, no timeout `error` frame and no timeout update exist.
C27_NoTimeoutAfterFinalize ==
    (updates # << >> /\ updates[1].path \in {"natural", "spawn"}) =>
        /\ timer = "cleared"
        /\ ~sigterm
        /\ IssuedBy("timeout") = {}
        /\ \A i \in DOMAIN events : events[i] # Frame("error", TimeoutMessage)

C27_Witness ==
    /\ updates # << >>
    /\ updates[1].path = "spawn"
    /\ updates[1].state = "resolved"
    /\ closeEmitted
    /\ timer = "cleared"
    /\ DoneSent

\* C28: once every update issued for the execution has been applied, the
\* payload of the `done` frame equals the status of the row.
C28_DoneMatchesRecord ==
    (DoneSent /\ updates # << >> /\ Resolved = DOMAIN updates) =>
        events[FirstIndex("done")].data = record.status

WhereAnyRow(id) == ExecutionIds

\* where: { id: executionId }: the rows an update touches
WhereId(id) == {id}

\* prisma.scriptExecution.update applied to the store
StoreUpdate(store, id, data) ==
    [r \in DOMAIN store |->
        IF r \in WhereId(id) THEN ApplyUpdate(store[r], data) ELSE store[r]]

\* tryFinalize() in the closure c, lines 105-125
ConcTryFinalize(c) ==
    IF FinalizeGuard(c.stdoutDone, c.stderrDone, c.exitCode)
    THEN [c EXCEPT !.timer = ClearTimeout(@),
                   !.updates = Append(@, Issue("natural",
                                        NaturalData(c.exitCode[1], "", "")))]
    ELSE c

\* POST of request e up to lines 53-60: the gate passed, the row is created
ConcCreate(e) ==
    /\ execs[e].pc = "idle"
    /\ rows' = [rows EXCEPT ![IdOf(e)] = NewExecution]
    /\ execs' = [execs EXCEPT ![e].pc = "created"]
    /\ UNCHANGED <<serverVars, clientVars>>

\* start(controller) of request e, lines 77-190
ConcStart(e) ==
    /\ execs[e].pc = "created"
    /\ execs' = [execs EXCEPT ![e] =
          [@ EXCEPT !.pc = "streaming",
                    !.events = Send(@, execs[e].closed, "execution_id", IdOf(e)),
                    !.proc = "starting",
                    !.timer = "armed"]]
    /\ UNCHANGED <<rows, serverVars, clientVars>>

ConcSpawnOk(e) ==
    /\ execs[e].proc = "starting"
    /\ execs' = [execs EXCEPT ![e].proc = "running"]
    /\ UNCHANGED <<rows, serverVars, clientVars>>

\* ps.on("error") of request e, lines 170-185
ConcOnError(e) ==
    /\ execs[e].proc = "starting"
    /\ \E errno \in SpawnErrnos :
          execs' = [execs EXCEPT ![e] =
             [@ EXCEPT !.proc = "failed",
                       !.procCode = <<errno>>,
                       !.timer = ClearTimeout(@),
                       !.events = Send(@, execs[e].closed, "error", SpawnMessage),
                       !.updates = Append(@, Issue("spawn", SpawnErrorData))]]
    /\ UNCHANGED <<rows, serverVars, clientVars>>

\* ps.stdout.on("end") of request e, lines 133-136
ConcOnStdoutEnd(e) ==
    /\ execs[e].proc \in {"running", "exited"}
    /\ ~execs[e].stdoutDone
    /\ execs' = [execs EXCEPT ![e] =
                    ConcTryFinalize([@ EXCEPT !.stdoutDone = TRUE])]
    /\ UNCHANGED <<rows, serverVars, clientVars>>

\* ps.stderr.on("end") of request e, lines 144-147
ConcOnStderrEnd(e) ==
    /\ execs[e].proc \in {"running", "exited"}
    /\ ~execs[e].stderrDone
    /\ execs' = [execs EXCEPT ![e] =
                    ConcTryFinalize([@ EXCEPT !.stderrDone = TRUE])]
    /\ UNCHANGED <<rows, serverVars, clientVars>>

\* the child of request e ends
ConcProcExit(e, code) ==
    /\ execs[e].proc = "running"
    /\ (code = << >>) => execs[e].sigterm
    /\ execs' = [execs EXCEPT ![e] = [@ EXCEPT !.proc = "exited", !.procCode = code]]
    /\ UNCHANGED <<rows, serverVars, clientVars>>

\* ps.on("close") of request e, lines 165-168
ConcOnClose(e) ==
    /\ execs[e].proc \in {"exited", "failed"}
    /\ ~execs[e].closeEmitted
    /\ execs' = [execs EXCEPT ![e] =
          ConcTryFinalize([@ EXCEPT !.closeEmitted = TRUE,
                                    !.exitCode = <<Coalesce(execs[e].procCode, 1)>>])]
    /\ UNCHANGED <<rows, serverVars, clientVars>>

\* the setTimeout callback of request e, lines 149-163
ConcTimerFire(e) ==
    /\ execs[e].timer = "armed"
    /\ execs[e].proc # "starting"
    /\ execs' = [execs EXCEPT ![e] =
          [@ EXCEPT !.timer = "fired",
                    !.sigterm = (@ \/ execs[e].proc = "running"),
                    !.events = Send(@, execs[e].closed, "error", TimeoutMessage),
                    !.updates = Append(@, Issue("timeout", TimeoutData))]]
    /\ UNCHANGED <<rows, serverVars, clientVars>>

\* the .finally callback in the closure c
ConcFinally(c, outcome, status) ==
    IF FinallyRuns(outcome)
    THEN [c EXCEPT !.events = Send(@, c.closed, "done", status),
                   !.closed = CloseController(@)]
    ELSE c

\* an update promise of request e resolves
ConcUpdateResolve(e, i) ==
    /\ execs[e].updates[i].state = "pending"
    /\ rows' = StoreUpdate(rows, IdOf(e), execs[e].updates[i].data)
    /\ execs' = [execs EXCEPT ![e] =
          ConcFinally([@ EXCEPT !.updates[i].state = "resolved"],
                      "resolved", execs[e].updates[i].data.status)]
    /\ UNCHANGED <<serverVars, clientVars>>

\* an update promise of request e rejects
ConcUpdateReject(e, i) ==
    /\ execs[e].updates[i].state = "pending"
    /\ execs' = [execs EXCEPT ![e] =
          ConcFinally([@ EXCEPT !.updates[i].state = "rejected"],
                      "rejected", execs[e].updates[i].data.status)]
    /\ UNCHANGED <<rows, serverVars, clientVars>>

ConcNext ==
    \E e \in Execs :
        \/ ConcCreate(e)
        \/ ConcStart(e)
        \/ ConcSpawnOk(e)
        \/ ConcOnError(e)
        \/ ConcOnStdoutEnd(e)
        \/ ConcOnStderrEnd(e)
        \/ \E code \in {<<c>> : c \in ExitCodes} \cup {<< >>} : ConcProcExit(e, code)
        \/ ConcOnClose(e)
        \/ ConcTimerFire(e)
        \/ \E i \in DOMAIN execs[e].updates : ConcUpdateResolve(e, i)
        \/ \E i \in DOMAIN execs[e].updates : ConcUpdateReject(e, i)

ConcSpec == Init /\ [][ConcNext]_vars

\* what belongs to request e: its closure and its row
Owned(e) == <<execs[e], rows[IdOf(e)]>>

\* C24: every step of one request (a completion signal, its timer, the
\* settlement of one of its updates, the close of its stream) leaves the row,
\* the frames, the timer and the rest of the closure of the other request
\* as they were.
C24_Isolated ==
    [][\A e \in Execs :
          Owned(e)' # Owned(e) =>
              \A o \in Execs \ {e} : Owned(o)' = Owned(o)]_vars

\* the first request timed out, was stored and closed while the second is
\* still running, untouched
C24_Witness ==
    /\ execs[1].timer = "fired"
    /\ execs[1].closed
    /\ rows[IdOf(1)].status = "FAILED"
    /\ rows[IdOf(1)].error = TimeoutMessage
    /\ execs[2].proc = "running"
    /\ execs[2].timer = "armed"
    /\ execs[2].stdoutDone
    /\ ~execs[2].closed
    /\ rows[IdOf(2)] = NewExecution
    /\ execs[2].events = <<Frame("execution_id", IdOf(2))>>

\* ------------------------------------------------ the browser component
\* src/src/components/ScriptExecutor.tsx, lines 1-229: handleExecute reads
\* the response body of one accepted request.  Text is a sequence of
\* characters; the prefixes "event: " and "data: ", an event name, a status
\* and a message are one token each.

\* the escape character, U+001B, and the bell character, U+0007
ESC == "<esc>"
BEL == "<bel>"
BACKSLASH == "\\"
EVENT_PREFIX == "event: "
DATA_PREFIX == "data: "

\* [0-9;?] and [0-9;] of the regular expression of stripAnsi
ParamChars == {"0", "1", "2", "3", "4", "5", "6", "7", "8", "9", ";", "?"}
PrivateParamChars == ParamChars \ {"?"}

\* [a-zA-Z]
Letters ==
    {"a", "b", "c", "d", "e", "f", "g", "h", "i", "j", "k", "l", "m", "n",
    "o", "p", "q", "r", "s", "t", "u", "v", "w", "x", "y", "z", "A", "B",
    "C", "D", "E", "F", "G", "H", "I", "J", "K", "L", "M", "N", "O", "P",
    "Q", "R", "S", "T", "U", "V", "W", "X", "Y", "Z"}

\* first position from j on whose character is not in S (Len(t) + 1: none)
RECURSIVE SkipWhile(_, _, _)
SkipWhile(t, j, S) ==
    IF j <= Len(t) /\ t[j] \in S THEN SkipWhile(t, j + 1, S) ELSE j

\* first position from j on whose character is c (Len(t) + 1: none)
RECURSIVE SkipUntil(_, _, _)
SkipUntil(t, j, c) ==
    IF j <= Len(t) /\ t[j] # c THEN SkipUntil(t, j + 1, c) ELSE j

\* length of the match of the regular expression of line 9 at position i of
\* t (0: no match): the three alternatives, tried in order
AnsiMatchAt(t, i) ==
    IF t[i] # ESC \/ i + 1 > Len(t) THEN 0
    ELSE LET csi == IF t[i + 1] = "[" THEN SkipWhile(t, i + 2, ParamChars) ELSE 0
             osc == IF t[i + 1] = "]" THEN SkipUntil(t, i + 2, BEL) ELSE 0
             prv == IF t[i + 1] = "[" /\ i + 2 <= Len(t) /\ t[i + 2] = "?"
                    THEN SkipWhile(t, i + 3, PrivateParamChars) ELSE 0
         IN  IF csi > 0 /\ csi <= Len(t) /\ t[csi] \in Letters THEN csi - i + 1
             ELSE IF osc > 0 /\ osc <= Len(t) THEN osc - i + 1
             ELSE IF prv > 0 /\ prv <= Len(t) /\ t[prv] \in {"h", "l"} THEN prv - i + 1
             ELSE 0

RECURSIVE StripFrom(_, _)
StripFrom(t, i) ==
    IF i > Len(t) THEN << >>
    ELSE LET m == AnsiMatchAt(t, i)
         IN  IF m > 0 THEN StripFrom(t, i + m)
             ELSE <<t[i]>> \o StripFrom(t, i + 1)

\* function stripAnsi(text), lines 7-10: every match replaced by ""
stripAnsi(text) == StripFrom(text, 1)

\* JSON.stringify of a string: the characters between the quotes
RECURSIVE JsonEscape(_)
JsonEscape(t) ==
    IF t = << >> THEN << >>
    ELSE (CASE Head(t) = QUOTE     -> <<BACKSLASH, QUOTE>>
            [] Head(t) = BACKSLASH -> <<BACKSLASH, BACKSLASH>>
            [] Head(t) = NEWLINE   -> <<BACKSLASH, "n">>
            [] Head(t) = ESC       -> <<BACKSLASH, "u", "0", "0", "1", "b">>
            [] Head(t) = BEL       -> <<BACKSLASH, "u", "0", "0", "0", "7">>
            [] OTHER               -> <<Head(t)>>)
         \o JsonEscape(Tail(t))

JsonStringify(t) == <<QUOTE>> \o JsonEscape(t) \o <<QUOTE>>

\* the character a \uXXXX escape denotes
HexChar(h) ==
    IF h = <<"0", "0", "1", "b">> THEN ESC
    ELSE IF h = <<"0", "0", "0", "7">> THEN BEL
    ELSE "<other>"

\* the character a two-character escape denotes
Unescape(c) == IF c = "n" THEN NEWLINE ELSE c

SyntaxError == <<"<SyntaxError>">>

\* JSON.parse of a string literal, read from position i (after the opening
\* quote) up to the closing quote
RECURSIVE JsonUnescape(_, _, _)
JsonUnescape(t, i, acc) ==
    IF i > Len(t) THEN SyntaxError
    ELSE IF t[i] = QUOTE THEN (IF i = Len(t) THEN acc ELSE SyntaxError)
    ELSE IF t[i] = BACKSLASH
         THEN IF i + 1 > Len(t) THEN SyntaxError
              ELSE IF t[i + 1] = "u"
                   THEN IF i + 5 > Len(t) THEN SyntaxError
                        ELSE JsonUnescape(t, i + 6,
                                 Append(acc, HexChar(SubSeq(t, i + 2, i + 5))))
              ELSE JsonUnescape(t, i + 2, Append(acc, Unescape(t[i + 1])))
    ELSE JsonUnescape(t, i + 1, Append(acc, t[i]))

JsonParse(t) ==
    IF t # << >> /\ t[1] = QUOTE THEN JsonUnescape(t, 2, << >>) ELSE SyntaxError

\* route.ts line 85: `event: ${event}\ndata: ${JSON.stringify(data)}\n\n`
EncodeFrame(f) ==
    <<EVENT_PREFIX, f.event, NEWLINE, DATA_PREFIX>> \o JsonStringify(f.data)
        \o <<NEWLINE, NEWLINE>>

\* the response body: the enqueued frames one after the other
RECURSIVE EncodeAll(_)
EncodeAll(fs) ==
    IF fs = << >> THEN << >> ELSE EncodeFrame(Head(fs)) \o EncodeAll(Tail(fs))

\* buffer.split("\n"): the pieces between the line breaks, cur being the
\* piece read so far
RECURSIVE Split(_, _)
Split(t, cur) ==
    IF t = << >> THEN <<cur>>
    ELSE IF Head(t) = NEWLINE THEN <<cur>> \o Split(Tail(t), << >>)
    ELSE Split(Tail(t), Append(cur, Head(t)))

\* the body of the for loop, lines 84-112, on one line
HandleLine(st, line) ==
    IF line # << >> /\ line[1] = EVENT_PREFIX
    THEN [st EXCEPT !.currentEvent = Tail(line)]
    ELSE IF line # << >> /\ line[1] = DATA_PREFIX
    THEN LET data == JsonParse(Tail(line))
             kind == st.currentEvent
         IN  [st EXCEPT
                !.output = IF kind \in {<<"stdout">>, <<"stderr">>}
                           THEN @ \o stripAnsi(data)
                           ELSE IF kind = <<"error">>
                           THEN @ \o <<NEWLINE, "ERROR: ">> \o data
                           ELSE @,
                !.uiStatus = IF kind = <<"done">>
                             THEN (IF data = <<"SUCCESS">> THEN "success" ELSE "error")
                             ELSE @,
                !.handled = Append(@, [event |-> kind, data |-> data]),
                !.currentEvent = << >>]
    ELSE st

RECURSIVE HandleLines(_, _)
HandleLines(st, lines) ==
    IF lines = << >> THEN st
    ELSE HandleLines(HandleLine(st, Head(lines)), Tail(lines))

\* one turn of the while loop, lines 76-112, on the chunk the reader
\* returned: the last piece stays in the buffer, currentEvent starts empty
ReadChunk(st, chunk) ==
    LET lines == Split(st.buffer \o chunk, << >>)
    IN  HandleLines([st EXCEPT !.buffer = lines[Len(lines)],
                               !.currentEvent = << >>],
                    SubSeq(lines, 1, Len(lines) - 1))

\* the component when the reading starts: lines 45-46 and 70
FreshClient ==
    [buffer |-> << >>, currentEvent |-> << >>, output |-> << >>,
     uiStatus |-> "running", handled |-> << >>]

\* outputs of the child as the client sees them: a colour sequence cut in
\* two by the pipe, and a text with a quote and a line break
DataPayloads ==
    { <<ESC, "[", "3">>,
      <<"1", "m", "x">>,
      <<QUOTE, NEWLINE>> }

\* the frames between execution_id and done
DataFrames ==
    {Frame("stdout", p) : p \in DataPayloads}
        \cup {Frame("stderr", <<"x">>), Frame("error", <<TimeoutMessage>>)}

\* largest number of frames between execution_id and done
MaxData == 2

\* messages of the error responses of the gate
GateErrors == {"Unauthorized", "Script not found"}

\* handleExecute, lines 44-70: the request was accepted, the response carries
\* the frames fs
HandleExecute(mid, final) ==
    /\ clientPc = "idle"
    /\ clientPc' = "reading"
    /\ frames' = <<Frame("execution_id", <<executionId>>)>> \o mid
                    \o <<Frame("done", <<final>>)>>
    /\ body' = EncodeAll(frames')
    /\ buffer' = FreshClient.buffer
    /\ output' = FreshClient.output
    /\ uiStatus' = FreshClient.uiStatus
    /\ handled' = FreshClient.handled
    /\ UNCHANGED <<lineCuts, serverVars, concVars>>

\* handleExecute, lines 55-60: the response is an error response
HandleRejected(msg) ==
    /\ clientPc = "idle"
    /\ clientPc' = "rejected"
    /\ uiStatus' = "error"
    /\ output' = <<msg>>
    /\ UNCHANGED <<frames, body, buffer, handled, lineCuts, serverVars, concVars>>

\* reader.read() returns the next n characters of the body, lines 73-112
ReaderRead(n) ==
    /\ clientPc = "reading"
    /\ n \in 1..Len(body)
    /\ LET chunk == SubSeq(body, 1, n)
           st == ReadChunk([buffer |-> buffer, currentEvent |-> << >>,
                            output |-> output, uiStatus |-> uiStatus,
                            handled |-> handled], chunk)
       IN  /\ buffer' = st.buffer
           /\ output' = st.output
           /\ uiStatus' = st.uiStatus
           /\ handled' = st.handled
           /\ lineCuts' = (lineCuts /\ chunk[n] = NEWLINE)
    /\ body' = SubSeq(body, n + 1, Len(body))
    /\ UNCHANGED <<clientPc, frames, serverVars, concVars>>

\* reader.read() returns done: the loop is left, line 74
ReaderDone ==
    /\ clientPc = "reading"
    /\ body = << >>
    /\ clientPc' = "ended"
    /\ UNCHANGED <<frames, body, buffer, output, uiStatus, handled, lineCuts,
                   serverVars, concVars>>

\* reader.read() throws (the connection broke): the catch of lines 114-117
ReaderThrows ==
    /\ clientPc = "reading"
    /\ body # << >>
    /\ clientPc' = "failed"
    /\ uiStatus' = "error"
    /\ output' = <<"Failed to connect to execution API">>
    /\ UNCHANGED <<frames, body, buffer, handled, lineCuts, serverVars, concVars>>

ClientNext ==
    \/ \E k \in 0..MaxData : \E mid \in [1..k -> DataFrames] :
          \E final \in Terminal : HandleExecute(mid, final)
    \/ \E msg \in GateErrors : HandleRejected(msg)
    \/ \E n \in 1..Len(body) : ReaderRead(n)
    \/ ReaderDone
    \/ ReaderThrows

ClientSpec == Init /\ [][ClientNext]_vars

\* what the component does with the whole body returned by a single read
Unsplit == ReadChunk(FreshClient, EncodeAll(frames))

\* the frames as the switch of lines 90-109 receives them
AsHandled(fs) == [i \in DOMAIN fs |-> [event |-> <<fs[i].event>>, data |-> fs[i].data]]

\* the payloads of the stdout and stderr frames, joined in order
RECURSIVE DataText(_)
DataText(fs) ==
    IF fs = << >> THEN << >>
    ELSE (IF Head(fs).event \in {"stdout", "stderr"} THEN Head(fs).data ELSE << >>)
         \o DataText(Tail(fs))

\* C23: however the body is cut into read chunks at line breaks, the
\* component handles the same (kind, payload) pairs, shows the same output
\* and ends in the same status as for the body read in one piece; the `done`
\* frame moves the status away from running.
C23_SplitIndependent ==
    (clientPc = "ended" /\ lineCuts) =>
        /\ handled = Unsplit.handled
        /\ output = Unsplit.output
        /\ uiStatus = Unsplit.uiStatus
        /\ uiStatus # "running"

\* C25: when every frame was handled under its kind, the text displayed for
\* the stdout and stderr data is stripAnsi of the payloads joined, however
\* the output was cut into payloads.
C25_StripCommutes ==
    (/\ clientPc = "ended"
     /\ handled = AsHandled(frames)
     /\ \A i \in DOMAIN frames : frames[i].event # "error") =>
        output = stripAnsi(DataText(frames))

\* C30: when the response stream has ended the status is success if the
\* `done` frame carried SUCCESS and error otherwise, never running.
C30_NotRunningAtEnd ==
    clientPc = "ended" =>
        uiStatus = IF frames[Len(frames)].data = <<"SUCCESS">>
                   THEN "success" ELSE "error"

====
